---- MODULE Spec2Model ----
(***************************************************************************)
(* Provider configuration of the pfSense Terraform provider                *)
(* (pfsense/provider.go): the url validator isValidHTTPURL and the         *)
(* configure function providerConfigure (TLS policy, authentication mode   *)
(* selection, client construction).                                        *)
(*                                                                         *)
(* One run of the model is one provider instantiation: the schema          *)
(* validates the url attribute with isValidHTTPURL, and when it reports    *)
(* no error the configure function is called with the resource data.       *)
(* Strings are TLA+ strings, read character by character with SubSeq.      *)
(***************************************************************************)
EXTENDS Integers, Sequences, FiniteSets, TLC

VARIABLES
    endpoint,        \* the configured "url" attribute
    pc,              \* position of the run
    warns, errs,     \* what isValidHTTPURL returned
    d,               \* *schema.ResourceData handed to providerConfigure
    skipTLSValue,    \* locals of providerConfigure (line 114)
    skipTLSExists,
    c,               \* pfsenseapi.Config under construction
    client,          \* first return value of providerConfigure
    err,             \* second return value of providerConfigure
    newClientCalls   \* number of calls of pfsenseapi.NewClient

vars == <<endpoint, pc, warns, errs, d, skipTLSValue, skipTLSExists, c,
          client, err, newClientCalls>>

Nil == "<nil>"

----------------------------------------------------------------------------
(* Bounds of the model and constants of the program *)

\* timeouts 1..MaxTimeout are tried next to the schema default
MaxTimeout == 1

\* schema default of "timeout"
DefaultTimeout == 5

----------------------------------------------------------------------------
(* strings *)

Char(s, i) == SubSeq(s, i, i)

Chars(s) == {Char(s, i) : i \in 1..Len(s)}

HasPrefix(s, p) == Len(s) >= Len(p) /\ SubSeq(s, 1, Len(p)) = p

\* strings.Index for a one-character separator: 0 when absent
Index(s, ch) ==
    IF \E i \in 1..Len(s) : Char(s, i) = ch
    THEN CHOOSE i \in 1..Len(s) :
            Char(s, i) = ch /\ \A j \in 1..(i - 1) : Char(s, j) # ch
    ELSE 0

LastIndex(s, ch) ==
    IF \E i \in 1..Len(s) : Char(s, i) = ch
    THEN CHOOSE i \in 1..Len(s) :
            Char(s, i) = ch /\ \A j \in (i + 1)..Len(s) : Char(s, j) # ch
    ELSE 0

Count(s, ch) == Cardinality({i \in 1..Len(s) : Char(s, i) = ch})

\* strings.Cut: before, after, found
Cut(s, ch) ==
    LET i == Index(s, ch)
    IN  IF i = 0
        THEN [before |-> s, after |-> "", found |-> FALSE]
        ELSE [before |-> SubSeq(s, 1, i - 1),
              after  |-> SubSeq(s, i + 1, Len(s)),
              found  |-> TRUE]

UpperLetters == "ABCDEFGHIJKLMNOPQRSTUVWXYZ"
LowerLetters == "abcdefghijklmnopqrstuvwxyz"
Digits == "0123456789"

IsLetter(ch) == ch \in Chars(UpperLetters) \cup Chars(LowerLetters)
IsDigit(ch) == ch \in Chars(Digits)

LowerChar(ch) ==
    IF ch \in Chars(UpperLetters)
    THEN Char(LowerLetters, Index(UpperLetters, ch))
    ELSE ch

RECURSIVE ToLower(_)
ToLower(s) ==
    IF s = "" THEN ""
    ELSE LowerChar(Char(s, 1)) \o ToLower(SubSeq(s, 2, Len(s)))

\* bytes below ' ' (and 0x7f): the ones the endpoints of the model can hold
CTLBytes == {"\t", "\n", "\r"}

stringContainsCTLByte(s) == \E i \in 1..Len(s) : Char(s, i) \in CTLBytes

----------------------------------------------------------------------------
(* net/url.Parse, as far as the endpoints of the model exercise it: they   *)
(* hold no '%' escape and no '@' userinfo.                                 *)

RECURSIVE getSchemeAt(_, _)
getSchemeAt(rawURL, i) ==
    IF i > Len(rawURL) THEN [scheme |-> "", path |-> rawURL, err |-> Nil]
    ELSE LET ch == Char(rawURL, i)
         IN  IF IsLetter(ch) THEN getSchemeAt(rawURL, i + 1)
             ELSE IF IsDigit(ch) \/ ch \in {"+", "-", "."}
             THEN IF i = 1
                  THEN [scheme |-> "", path |-> rawURL, err |-> Nil]
                  ELSE getSchemeAt(rawURL, i + 1)
             ELSE IF ch = ":"
             THEN IF i = 1
                  THEN [scheme |-> "", path |-> "",
                        err |-> "missing protocol scheme"]
                  ELSE [scheme |-> SubSeq(rawURL, 1, i - 1),
                        path |-> SubSeq(rawURL, i + 1, Len(rawURL)),
                        err |-> Nil]
             ELSE [scheme |-> "", path |-> rawURL, err |-> Nil]

getScheme(rawURL) == getSchemeAt(rawURL, 1)

validOptionalPort(port) ==
    \/ port = ""
    \/ /\ Char(port, 1) = ":"
       /\ \A i \in 2..Len(port) : IsDigit(Char(port, i))

parseHost(host) ==
    IF HasPrefix(host, "[")
    THEN LET i == LastIndex(host, "]")
         IN  IF i = 0 THEN [host |-> "", err |-> "missing ']' in host"]
             ELSE IF ~validOptionalPort(SubSeq(host, i + 1, Len(host)))
             THEN [host |-> "", err |-> "invalid port after host"]
             ELSE [host |-> host, err |-> Nil]
    ELSE LET i == LastIndex(host, ":")
         IN  IF i # 0 /\ ~validOptionalPort(SubSeq(host, i, Len(host)))
             THEN [host |-> "", err |-> "invalid port after host"]
             ELSE [host |-> host, err |-> Nil]

\* a *URL: the nil pointer, or a URL value
NilURL == [nil |-> TRUE]

EmptyURL ==
    [nil |-> FALSE, Scheme |-> "", Opaque |-> "", Host |-> "", Path |-> "",
     ForceQuery |-> FALSE, RawQuery |-> "", Fragment |-> ""]

\* parse(rawURL, viaRequest = false): [url, err]
parse(rawURL) ==
    IF stringContainsCTLByte(rawURL)
    THEN [url |-> NilURL, err |-> "net/url: invalid control character in URL"]
    ELSE IF rawURL = "*"
    THEN [url |-> [EmptyURL EXCEPT !.Path = "*"], err |-> Nil]
    ELSE
    LET gs == getScheme(rawURL)
        scheme == ToLower(gs.scheme)
        force == Len(gs.path) > 0 /\ Char(gs.path, Len(gs.path)) = "?"
                 /\ Count(gs.path, "?") = 1
        qcut == Cut(gs.path, "?")
        rest == IF force THEN SubSeq(gs.path, 1, Len(gs.path) - 1)
                ELSE qcut.before
        query == IF force THEN "" ELSE qcut.after
        u0 == [EmptyURL EXCEPT !.Scheme = scheme, !.ForceQuery = force,
                               !.RawQuery = query]
        hasAuthority == (scheme # "" \/ ~HasPrefix(rest, "///"))
                        /\ HasPrefix(rest, "//")
        auth0 == SubSeq(rest, 3, Len(rest))
        slash == Index(auth0, "/")
        authority == IF slash = 0 THEN auth0 ELSE SubSeq(auth0, 1, slash - 1)
        path == IF ~hasAuthority THEN rest
                ELSE IF slash = 0 THEN ""
                ELSE SubSeq(auth0, slash, Len(auth0))
        ph == parseHost(authority)
    IN  IF gs.err # Nil THEN [url |-> NilURL, err |-> gs.err]
        ELSE IF ~HasPrefix(rest, "/") /\ scheme # ""
        THEN [url |-> [u0 EXCEPT !.Opaque = rest], err |-> Nil]
        ELSE IF ~HasPrefix(rest, "/")
                /\ \E i \in 1..Len(Cut(rest, "/").before) :
                      Char(rest, i) = ":"
        THEN [url |-> NilURL,
              err |-> "first path segment in URL cannot contain colon"]
        ELSE IF hasAuthority /\ ph.err # Nil
        THEN [url |-> NilURL, err |-> ph.err]
        ELSE [url |-> [u0 EXCEPT !.Host = IF hasAuthority THEN ph.host ELSE "",
                                 !.Path = path],
              err |-> Nil]

\* url.Parse: the fragment is cut off first, then the rest is parsed
Parse(rawURL) ==
    LET fcut == Cut(rawURL, "#")
        r == parse(fcut.before)
    IN  IF r.err # Nil THEN [url |-> NilURL, err |-> r.err]
        ELSE [url |-> [r.url EXCEPT !.Fragment = fcut.after], err |-> Nil]

----------------------------------------------------------------------------
(* Inputs: the endpoints and the resource data the runs are started with *)

Prefixes == {"http://", "https://", "HTTPS://", "ftp://", "http:", ":", ""}
Hosts    == {"10.0.0.1", "h:x", "[::1", "h\t", ""}
Paths    == {"", "/", "/p"}
Queries  == {"", "?", "?q"}
Frags    == {"", "#", "#f"}

Endpoints ==
    {p \o h \o pa \o q \o f :
        p \in Prefixes, h \in Hosts, pa \in Paths, q \in Queries, f \in Frags}

\* an optional attribute of the configuration: set or not, and its value
\* (the zero value of its type when it is not set)
Attr(set, val) == [set |-> set, val |-> val]

StringAttrs(v) == {Attr(FALSE, ""), Attr(TRUE, ""), Attr(TRUE, v)}
BoolAttrs == {Attr(FALSE, FALSE), Attr(TRUE, FALSE), Attr(TRUE, TRUE)}
Timeouts == {DefaultTimeout} \cup (1..MaxTimeout)

ResourceDatas(url) ==
    [url : {url},
     user : StringAttrs("admin"),
     password : StringAttrs("x"),
     jwt_token : StringAttrs("y"),
     api_client_id : StringAttrs("id"),
     api_client_token : StringAttrs("tok"),
     skip_tls : BoolAttrs,
     timeout : Timeouts]

\* schema.ResourceData.GetOk: the value, and whether it is set to a
\* non-zero value
GetOk(attr, zero) == [value |-> attr.val, ok |-> attr.set /\ attr.val # zero]

----------------------------------------------------------------------------
(* isValidHTTPURL *)

InvalidURL == "must be a valid HTTP/HTTPS URL"
HasPathQueryFragment == "should not contain any path, query or fragment"

\* line 46: the parse error short-circuits the scheme test
SchemeErrors(r) ==
    IF r.err # Nil \/ (r.url.Scheme # "http" /\ r.url.Scheme # "https")
    THEN <<InvalidURL>> ELSE <<>>

\* as ComponentErrors, with the fragment test left out
ComponentErrorsNoFragment(u) ==
    IF u.Path # "" \/ u.RawQuery # ""
    THEN <<HasPathQueryFragment>> ELSE <<>>

\* line 49, for a non-nil url
ComponentErrors(u) ==
    IF u.Path # "" \/ u.RawQuery # "" \/ u.Fragment # ""
    THEN <<HasPathQueryFragment>> ELSE <<>>

\* The whole validator.  When url.Parse fails it returns a nil *URL, and
\* line 49 reads url.Path through it: the call panics and never returns.
\* The schema calls providerConfigure only when no error was returned.
isValidHTTPURL ==
    /\ pc = "validate"
    /\ LET r == Parse(endpoint)
           e1 == SchemeErrors(r)
       IN  IF r.url.nil
           THEN /\ pc' = "panic"
                /\ UNCHANGED <<warns, errs>>
           ELSE /\ errs' = e1 \o ComponentErrors(r.url)
                /\ warns' = <<>>
                /\ pc' = IF errs' = <<>> THEN "configure" ELSE "rejected"
    /\ UNCHANGED <<endpoint, d, skipTLSValue, skipTLSExists, c, client, err,
                   newClientCalls>>

----------------------------------------------------------------------------
(* providerConfigure *)

ErrTLS == "Cannot enforce TLS for url"
ErrPassword == "password is required when username is provided"
ErrClientToken == "api_client_token is required when api_client_id is provided"
ErrAmbiguous == "only one form of authentication should be provided"

ZeroConfig ==
    [Host |-> "", SkipTLS |-> FALSE, Timeout |-> 0,
     JWTAuthEnabled |-> FALSE, JWTToken |-> "",
     LocalAuthEnabled |-> FALSE, User |-> "", Password |-> "",
     TokenAuthEnabled |-> FALSE, ApiClientID |-> "", ApiClientToken |-> ""]

\* as TLSPolicy, skipping verification by default on every url
TLSPolicySkipByDefault(url, value, exists) ==
    IF HasPrefix(url, "https://")
    THEN [value |-> IF ~exists THEN TRUE ELSE value,
          exists |-> exists, err |-> Nil]
    ELSE IF ~exists
    THEN [value |-> value, exists |-> TRUE, err |-> Nil]
    ELSE IF ~value
    THEN [value |-> value, exists |-> exists, err |-> ErrTLS]
    ELSE [value |-> value, exists |-> exists, err |-> Nil]

\* lines 116-124: the branches on the url prefix and the skip_tls lookup
TLSPolicy(url, value, exists) ==
    IF HasPrefix(url, "https://")
    THEN [value |-> IF ~exists THEN FALSE ELSE value,
          exists |-> exists, err |-> Nil]
    ELSE IF ~exists
    THEN [value |-> value, exists |-> TRUE, err |-> Nil]
    ELSE IF ~value
    THEN [value |-> value, exists |-> exists, err |-> ErrTLS]
    ELSE [value |-> value, exists |-> exists, err |-> Nil]

\* as JWTAuth, enabling the mode without copying the token
JWTAuthNoToken(cfg, rd) ==
    LET g == GetOk(rd.jwt_token, "")
    IN  IF g.ok THEN [cfg EXCEPT !.JWTAuthEnabled = TRUE] ELSE cfg

\* lines 133-136
JWTAuth(cfg, rd) ==
    LET g == GetOk(rd.jwt_token, "")
    IN  IF g.ok
        THEN [cfg EXCEPT !.JWTAuthEnabled = TRUE, !.JWTToken = g.value]
        ELSE cfg

\* as LocalAuth, without the test that a password came with the user
LocalAuthNoPasswordCheck(cfg, rd) ==
    LET u == GetOk(rd.user, "")
        p == GetOk(rd.password, "")
    IN  IF ~u.ok THEN [c |-> cfg, err |-> Nil]
        ELSE [c |-> [cfg EXCEPT !.LocalAuthEnabled = TRUE, !.User = u.value,
                                !.Password = p.value],
              err |-> Nil]

\* as LocalAuth, with the password read outside the test on the user
LocalAuthPasswordAlways(cfg, rd) ==
    LET u == GetOk(rd.user, "")
        p == GetOk(rd.password, "")
        cp == [cfg EXCEPT !.Password = p.value]
    IN  IF ~u.ok THEN [c |-> cp, err |-> Nil]
        ELSE IF ~p.ok
        THEN [c |-> [cp EXCEPT !.LocalAuthEnabled = TRUE, !.User = u.value],
              err |-> ErrPassword]
        ELSE [c |-> [cp EXCEPT !.LocalAuthEnabled = TRUE, !.User = u.value],
              err |-> Nil]

\* lines 139-148: the config, and the error returned if any
LocalAuth(cfg, rd) ==
    LET u == GetOk(rd.user, "")
        p == GetOk(rd.password, "")
    IN  IF ~u.ok THEN [c |-> cfg, err |-> Nil]
        ELSE IF ~p.ok
        THEN [c |-> [cfg EXCEPT !.LocalAuthEnabled = TRUE, !.User = u.value],
              err |-> ErrPassword]
        ELSE [c |-> [cfg EXCEPT !.LocalAuthEnabled = TRUE, !.User = u.value,
                                !.Password = p.value],
              err |-> Nil]

\* lines 151-160
TokenAuth(cfg, rd) ==
    LET i == GetOk(rd.api_client_id, "")
        t == GetOk(rd.api_client_token, "")
    IN  IF ~i.ok THEN [c |-> cfg, err |-> Nil]
        ELSE IF ~t.ok
        THEN [c |-> [cfg EXCEPT !.TokenAuthEnabled = TRUE,
                                !.ApiClientID = i.value],
              err |-> ErrClientToken]
        ELSE [c |-> [cfg EXCEPT !.TokenAuthEnabled = TRUE,
                                !.ApiClientID = i.value,
                                !.ApiClientToken = t.value],
              err |-> Nil]

\* as AuthCount, with the JWT mode not counted
AuthCountNoJWT(cfg) ==
    (IF cfg.LocalAuthEnabled THEN 1 ELSE 0)
    + (IF cfg.TokenAuthEnabled THEN 1 ELSE 0)

\* lines 163-172
AuthCount(cfg) ==
    (IF cfg.JWTAuthEnabled THEN 1 ELSE 0)
    + (IF cfg.LocalAuthEnabled THEN 1 ELSE 0)
    + (IF cfg.TokenAuthEnabled THEN 1 ELSE 0)

\* the first return value: nil, or the handle pfsenseapi.NewClient(c) builds,
\* which holds the config it was built from
NilClient == [nil |-> TRUE]

NewClient(cfg) == [nil |-> FALSE, Cfg |-> cfg]

\* the plugin host calls providerConfigure with the resource data
\* (lines 113-114)
ConfigureCall ==
    /\ pc = "configure"
    /\ \E rd \in ResourceDatas(endpoint) :
          /\ d' = rd
          /\ LET g == GetOk(rd.skip_tls, FALSE)
             IN  /\ skipTLSValue' = g.value
                 /\ skipTLSExists' = g.ok
    /\ pc' = "tls"
    /\ UNCHANGED <<endpoint, warns, errs, c, client, err, newClientCalls>>

\* lines 116-130
ResolveTLS ==
    /\ pc = "tls"
    /\ LET t == TLSPolicy(d.url, skipTLSValue, skipTLSExists)
       IN  /\ skipTLSValue' = t.value
           /\ skipTLSExists' = t.exists
           /\ IF t.err # Nil
              THEN /\ client' = NilClient
                   /\ err' = t.err
                   /\ pc' = "done"
                   /\ c' = c
              ELSE /\ c' = [ZeroConfig EXCEPT !.Host = d.url,
                                              !.SkipTLS = t.value,
                                              !.Timeout = d.timeout]
                   /\ pc' = "jwt"
                   /\ UNCHANGED <<client, err>>
    /\ UNCHANGED <<endpoint, warns, errs, d, newClientCalls>>

\* lines 132-136
CheckJWT ==
    /\ pc = "jwt"
    /\ c' = JWTAuth(c, d)
    /\ pc' = "local"
    /\ UNCHANGED <<endpoint, warns, errs, d, skipTLSValue, skipTLSExists,
                   client, err, newClientCalls>>

\* lines 138-148
CheckLocal ==
    /\ pc = "local"
    /\ LET r == LocalAuth(c, d)
       IN  /\ c' = r.c
           /\ IF r.err # Nil
              THEN /\ client' = NilClient
                   /\ err' = r.err
                   /\ pc' = "done"
              ELSE /\ pc' = "token"
                   /\ UNCHANGED <<client, err>>
    /\ UNCHANGED <<endpoint, warns, errs, d, skipTLSValue, skipTLSExists,
                   newClientCalls>>

\* lines 150-160
CheckToken ==
    /\ pc = "token"
    /\ LET r == TokenAuth(c, d)
       IN  /\ c' = r.c
           /\ IF r.err # Nil
              THEN /\ client' = NilClient
                   /\ err' = r.err
                   /\ pc' = "done"
              ELSE /\ pc' = "count"
                   /\ UNCHANGED <<client, err>>
    /\ UNCHANGED <<endpoint, warns, errs, d, skipTLSValue, skipTLSExists,
                   newClientCalls>>

\* as CountAndCreate, with the client built before the count is tested
CountAfterCreate ==
    /\ pc = "count"
    /\ newClientCalls' = newClientCalls + 1
    /\ IF AuthCount(c) > 1
       THEN /\ client' = NilClient
            /\ err' = ErrAmbiguous
       ELSE /\ client' = NewClient(c)
            /\ err' = Nil
    /\ pc' = "done"
    /\ UNCHANGED <<endpoint, warns, errs, d, skipTLSValue, skipTLSExists, c>>

\* lines 162-179
CountAndCreate ==
    /\ pc = "count"
    /\ IF AuthCount(c) > 1
       THEN /\ client' = NilClient
            /\ err' = ErrAmbiguous
            /\ UNCHANGED newClientCalls
       ELSE /\ client' = NewClient(c)
            /\ err' = Nil
            /\ newClientCalls' = newClientCalls + 1
    /\ pc' = "done"
    /\ UNCHANGED <<endpoint, warns, errs, d, skipTLSValue, skipTLSExists, c>>

----------------------------------------------------------------------------

NoData ==
    [url |-> "", user |-> Attr(FALSE, ""), password |-> Attr(FALSE, ""),
     jwt_token |-> Attr(FALSE, ""), api_client_id |-> Attr(FALSE, ""),
     api_client_token |-> Attr(FALSE, ""), skip_tls |-> Attr(FALSE, FALSE),
     timeout |-> DefaultTimeout]

Init ==
    /\ endpoint \in Endpoints
    /\ pc = "validate"
    /\ warns = <<>>
    /\ errs = <<>>
    /\ d = NoData
    /\ skipTLSValue = FALSE
    /\ skipTLSExists = FALSE
    /\ c = ZeroConfig
    /\ client = NilClient
    /\ err = Nil
    /\ newClientCalls = 0

Next ==
    \/ isValidHTTPURL
    \/ ConfigureCall
    \/ ResolveTLS
    \/ CheckJWT
    \/ CheckLocal
    \/ CheckToken
    \/ CountAndCreate

Spec == Init /\ [][Next]_vars

----------------------------------------------------------------------------
(* Vocabulary of the properties *)

\* a credential is present when the configuration sets it to a non-empty
\* string; a boolean is specified when the configuration sets it at all
Present(attr) == attr.set /\ attr.val # ""
Specified(attr) == attr.set

Done == pc = "done"
Succeeded == pc = "done" /\ err = Nil
\* the validator has just returned
Validated == pc \in {"configure", "rejected"}

MissingCredential == {ErrPassword, ErrClientToken}

JWTGroup == Present(d.jwt_token)
LocalGroup == Present(d.user) /\ Present(d.password)
TokenGroup == Present(d.api_client_id) /\ Present(d.api_client_token)
HalfLocal == Present(d.user) /\ ~Present(d.password)
HalfToken == Present(d.api_client_id) /\ ~Present(d.api_client_token)

CompleteGroups ==
    Cardinality({g \in {"jwt", "local", "token"} :
        \/ g = "jwt" /\ JWTGroup
        \/ g = "local" /\ LocalGroup
        \/ g = "token" /\ TokenGroup})

EnabledModes(cfg) ==
    {m \in {"jwt", "local", "token"} :
        \/ m = "jwt" /\ cfg.JWTAuthEnabled
        \/ m = "local" /\ cfg.LocalAuthEnabled
        \/ m = "token" /\ cfg.TokenAuthEnabled}

----------------------------------------------------------------------------
(* Properties *)

\* C1: a configuration with a valid endpoint that supplies exactly one auth
\* group (user and api_client_id of the other groups absent) is configured
\* successfully, with exactly that group's mode enabled and its credentials
\* copied into the client config.
C1_SingleGroupResolves ==
    Done =>
        /\ (JWTGroup /\ ~Present(d.user) /\ ~Present(d.api_client_id)) =>
              /\ err = Nil /\ ~client.nil
              /\ EnabledModes(client.Cfg) = {"jwt"}
              /\ client.Cfg.JWTToken = d.jwt_token.val
        /\ (LocalGroup /\ ~JWTGroup /\ ~Present(d.api_client_id)) =>
              /\ err = Nil /\ ~client.nil
              /\ EnabledModes(client.Cfg) = {"local"}
              /\ client.Cfg.User = d.user.val
              /\ client.Cfg.Password = d.password.val
        /\ (TokenGroup /\ ~JWTGroup /\ ~Present(d.user)) =>
              /\ err = Nil /\ ~client.nil
              /\ EnabledModes(client.Cfg) = {"token"}
              /\ client.Cfg.ApiClientID = d.api_client_id.val
              /\ client.Cfg.ApiClientToken = d.api_client_token.val

C1_Witness ==
    /\ Done /\ JWTGroup /\ ~Present(d.user) /\ ~Present(d.api_client_id)
    /\ Present(d.password)
    /\ ~client.nil /\ client.Cfg.JWTToken = "y"

\* C2: user without password, or api_client_id without api_client_token,
\* fails with the missing-credential error of that group whatever else is
\* configured, and no client is returned or built.
C2_MissingCredential ==
    Done =>
        /\ HalfLocal => err = ErrPassword
        /\ (HalfToken /\ ~HalfLocal) => err = ErrClientToken
        /\ (HalfLocal \/ HalfToken) =>
              /\ err \in MissingCredential
              /\ client.nil
              /\ newClientCalls = 0

C2_Witness ==
    /\ Done /\ HalfLocal /\ JWTGroup /\ TokenGroup
    /\ err = ErrPassword /\ client.nil

\* C3 as stated: two or more complete auth groups always fail with the
\* ambiguous-authentication error.
C3_Original ==
    (Done /\ CompleteGroups >= 2) => (err = ErrAmbiguous /\ client.nil)

\* C3 amended: two or more complete auth groups, with no group supplied
\* only in part (user without password, api_client_id without
\* api_client_token), fail with the ambiguous-authentication error and
\* return no client.
C3_AmbiguousAuth ==
    (Done /\ CompleteGroups >= 2 /\ ~HalfLocal /\ ~HalfToken) =>
        (err = ErrAmbiguous /\ client.nil /\ newClientCalls = 0)

C3_Witness ==
    /\ Done /\ LocalGroup /\ JWTGroup /\ ~Present(d.api_client_id)
    /\ d.user.val = "admin" /\ d.password.val = "x" /\ d.jwt_token.val = "y"
    /\ err = ErrAmbiguous

\* C4: a plain http endpoint with skip_tls not specified yields a client
\* config with SkipTLS = true whenever configuration succeeds.
C4_HTTPDefaultsToSkip ==
    (Succeeded /\ HasPrefix(d.url, "http://") /\ ~Specified(d.skip_tls)) =>
        client.Cfg.SkipTLS = TRUE

\* C5: an https:// endpoint with skip_tls not specified yields SkipTLS =
\* false, and with no auth field present it is configured successfully with
\* no auth mode enabled.
C5_HTTPSDefaultsToVerify ==
    (HasPrefix(d.url, "https://") /\ ~Specified(d.skip_tls)) =>
        /\ pc \in {"jwt", "local", "token", "count"} => c.SkipTLS = FALSE
        /\ Succeeded => client.Cfg.SkipTLS = FALSE
        /\ (Done /\ ~Present(d.user) /\ ~Present(d.jwt_token)
                 /\ ~Present(d.api_client_id)) =>
              /\ err = Nil /\ ~client.nil
              /\ EnabledModes(client.Cfg) = {}

C5_Witness ==
    /\ Succeeded /\ d.url = "https://10.0.0.1" /\ ~Specified(d.skip_tls)
    /\ ~Present(d.user) /\ ~Present(d.jwt_token) /\ ~Present(d.api_client_id)
    /\ EnabledModes(client.Cfg) = {} /\ client.Cfg.SkipTLS = FALSE

\* C6: an endpoint that is not https:// with skip_tls given as false fails
\* with the TLS policy error and builds no client.
C6_TLSPolicyConflict ==
    (Done /\ ~HasPrefix(d.url, "https://")
          /\ Specified(d.skip_tls) /\ d.skip_tls.val = FALSE) =>
        (err = ErrTLS /\ client.nil /\ newClientCalls = 0)

\* the text after the first '#', and the text between the first '?' and it
FragmentText(s) == Cut(s, "#").after
QueryText(s) == Cut(Cut(s, "#").before, "?").after

\* C7: for an endpoint that parses, the validator reports an error exactly
\* when the parsed scheme is neither http nor https or the path, query or
\* fragment is non-empty; an endpoint with query or fragment text is
\* rejected; an accepted endpoint has no error and no warning.
C7_ValidatorVerdict ==
    (Validated /\ Parse(endpoint).err = Nil) =>
        LET u == Parse(endpoint).url
        IN  /\ (errs # <<>>) <=>
                  \/ u.Scheme \notin {"http", "https"}
                  \/ u.Path # "" \/ u.RawQuery # "" \/ u.Fragment # ""
            /\ (FragmentText(endpoint) # "" \/ QueryText(endpoint) # "")
                  => errs # <<>>
            /\ (pc = "rejected") <=> (errs # <<>>)
            /\ warns = <<>>

C7_Witness ==
    /\ pc = "rejected" /\ endpoint = "https://10.0.0.1#f"
    /\ errs = <<HasPathQueryFragment>>

\* C8: for an endpoint that does not parse, the validator returns normally
\* with an invalid-endpoint error.
C8_ParseFailureReturns ==
    (pc \in {"configure", "rejected", "panic"} /\ Parse(endpoint).err # Nil) =>
        (pc = "rejected" /\ errs # <<>>)

\* C9: providerConfigure ends either with a client and no error, or with no
\* client and one of the missing-credential, ambiguous-authentication and
\* TLS-policy errors; the client is built only on the path that returns it.
C9_AllOrNothing ==
    /\ Done =>
          \/ err = Nil /\ ~client.nil /\ newClientCalls = 1
          \/ /\ client.nil /\ newClientCalls = 0
             /\ err \in MissingCredential \cup {ErrAmbiguous, ErrTLS}
    /\ ~Done => (client.nil /\ err = Nil /\ newClientCalls = 0)

C9_Witness == Done /\ err = ErrAmbiguous /\ client.nil /\ newClientCalls = 0

\* C10: a client config that is produced has at most one auth mode enabled
\* and holds exactly the credentials of that mode; a password without user,
\* or an api_client_token without api_client_id, raises no
\* missing-credential error and is dropped, and with no other auth field
\* the configuration succeeds with no mode enabled.
C10_OnlyEnabledCredentials ==
    /\ Succeeded =>
          LET k == client.Cfg
          IN  /\ Cardinality(EnabledModes(k)) <= 1
              /\ (k.JWTToken # "") <=> k.JWTAuthEnabled
              /\ (k.User # "") <=> k.LocalAuthEnabled
              /\ (k.Password # "") <=> k.LocalAuthEnabled
              /\ (k.ApiClientID # "") <=> k.TokenAuthEnabled
              /\ (k.ApiClientToken # "") <=> k.TokenAuthEnabled
    /\ (Done /\ Present(d.password) /\ ~Present(d.user)) =>
          /\ err # ErrPassword
          /\ (~JWTGroup /\ ~Present(d.api_client_id)) =>
                (Succeeded /\ EnabledModes(client.Cfg) = {})
    /\ (Done /\ Present(d.api_client_token) /\ ~Present(d.api_client_id)) =>
          /\ err # ErrClientToken
          /\ (~JWTGroup /\ ~Present(d.user)) =>
                (Succeeded /\ EnabledModes(client.Cfg) = {})

C10_Witness ==
    /\ Succeeded /\ Present(d.password) /\ ~Present(d.user)
    /\ Present(d.api_client_token) /\ ~Present(d.api_client_id)
    /\ ~JWTGroup
    /\ client.Cfg.Password = "" /\ client.Cfg.ApiClientToken = ""
    /\ EnabledModes(client.Cfg) = {}

====
